---- MODULE Spec2Model ----
(***************************************************************************)
(* train_para.py: the training driver main(args) of the paraphraser and    *)
(* the evaluation routine evaluate(model, data_loader, ...).               *)
(*                                                                         *)
(* Spec          runs the file as a script: main(get_train_args()).        *)
(* SpecEvaluate  calls evaluate on its own, with arguments drawn from      *)
(*               bounded sets.                                             *)
(*                                                                         *)
(* Calls into torch, util, models and model_para are taken to succeed in   *)
(* main; inside evaluate they may raise, since evaluate has no handler.    *)
(***************************************************************************)
EXTENDS Integers, Sequences, FiniteSets, TLC

\* ------------------------------------------------------------- bounds
MaxEpochs == 2
MaxEvalSteps == 2
MaxBatch == 2
MaxGpus == 2
MaxTrain == 2
MaxDev == 3
MaxHidden == 2

\* ------------------------------------------------- program constants
\* args.hidden_size = 5 in short-test mode
ShortTestHidden == 5
\* number of names the training loop unpacks from a collate_fn_para batch
CollateParaFields == 10
\* number of names evaluate's batch loop unpacks from a batch
EvaluateUnpackFields == 7

VARIABLES
    \* ---- main
    args,            \* the argument namespace (fields main reads or writes)
    gpus,            \* len(gpu_ids) as reported by util.get_available_devices()
    train_n,         \* number of examples in args.train_record_file
    dev_n,           \* number of examples in args.dev_record_file
    pc,              \* position of main
    log,             \* log.info messages issued, in order
    bidaf_model,     \* the BiDAF model, or NoModel
    paraphaser_model,\* the Paraphraser, or NoModel
    train_loader,    \* the training DataLoader, or NoLoader
    dev_loader,      \* the dev DataLoader, or NoLoader
    epoch,
    step,
    steps_till_eval,
    pass_pos,        \* examples yielded in the current pass over train_loader
    yielded,         \* examples train_loader has yielded over all passes
    batches,         \* batches train_loader has yielded over all passes
    trace,           \* operations the training loop has completed, in order
    error,           \* the exception that ended main, or "none"
    exit_status,     \* process exit status, or "running"
    \* ---- evaluate
    epc,             \* position of evaluate
    model_mode,      \* mode of the model passed to evaluate: "train" / "eval"
    data_loader,     \* the loader passed to evaluate
    use_squad_v2,    \* evaluate's use_squad_v2 argument
    batch_no,        \* batches of data_loader consumed by evaluate
    pred_dict,       \* evaluate's pred_dict
    nll_count,       \* examples accumulated by nll_meter
    results,         \* keys of the OrderedDict evaluate returns, in order
    eerror           \* the exception that ended evaluate, or "none"

mainVars == <<args, gpus, train_n, dev_n, pc, log, bidaf_model,
              paraphaser_model, train_loader, dev_loader, epoch, step,
              steps_till_eval, pass_pos, yielded, batches, trace, error,
              exit_status>>
evalVars == <<epc, model_mode, data_loader, use_squad_v2, batch_no,
              pred_dict, nll_count, results, eerror>>
vars == <<mainVars, evalVars>>

NoModel == [built |-> FALSE]
NoLoader == [built |-> FALSE]

Max(a, b) == IF a >= b THEN a ELSE b
Min(a, b) == IF a <= b THEN a ELSE b

\* ------------------------------------------------------- data loaders
\* torch DataLoader over n examples (ids 1..n), drop_last left at False:
\* ceil(n / batch_size) batches, the last one possibly short.
NumBatches(n, bs) == (n + bs - 1) \div bs

\* ids of the k-th batch (k >= 1) of an unshuffled loader
BatchIds(n, bs, k) == { i \in 1..n : (k - 1) * bs < i /\ i <= k * bs }

\* size of the batch that follows `done` already-yielded examples
NextBatchSize(n, bs, done) == Min(bs, n - done)

Loader(collate, fields, n, bs, shuffle) ==
    [built |-> TRUE, collate |-> collate, fields |-> fields,
     n |-> n, batch_size |-> bs, shuffle |-> shuffle]

TrainLoader(a, n) ==
    Loader("collate_fn_para", CollateParaFields, n, a.batch_size, TRUE)

DevLoader(a, n) ==
    Loader("collate_fn_para", CollateParaFields, n, a.batch_size, FALSE)

\* ------------------------------------------------------------ models
\* nn.Module is constructed in training mode
BuiltBidaf(hidden) ==
    [built |-> TRUE, hidden_size |-> hidden, loaded_from |-> "",
     on_device |-> FALSE, mode |-> "train", updates |-> 0]

\* mutant: the checkpoint is loaded but the model is left in training mode
LoadedBidaf_NoEval(b, path) ==
    [b EXCEPT !.loaded_from = path, !.on_device = TRUE]

\* util.load_model(...); .to(device); .eval()
LoadedBidaf(b, path) ==
    [b EXCEPT !.loaded_from = path, !.on_device = TRUE, !.mode = "eval"]

BuiltParaphraser(hidden) == [built |-> TRUE, hidden_size |-> hidden]

\* ----------------------------------------------------------- main
\* mutant: the missing checkpoint is tested before short-test mode
Branch_LoadPathFirst(a) ==
    IF a.load_path = "" THEN "exit"
    ELSE IF a.short_test THEN "short"
    ELSE "load"

\* the if / elif / else that decides what happens to the BiDAF checkpoint
Branch(a) ==
    IF a.short_test THEN "short"
    ELSE IF a.load_path = "" THEN "exit"
    ELSE "load"

\* mutant: the short-test return is missing
ShortTestReturns_Never(a) == FALSE

\* the `if args.short_test: return` after the first batch is printed
ShortTestReturns(a) == a.short_test

\* the message logged before exit(1)
ExitMessage == "Trying to trian paraphraser withou bidaf model"

ArgsSet ==
    [short_test : BOOLEAN,
     load_path : {"", "ckpt"},
     num_epochs : 0..MaxEpochs,
     eval_steps : 1..MaxEvalSteps,
     batch_size : 1..MaxBatch,
     hidden_size : 1..MaxHidden,
     use_squad_v2 : BOOLEAN]

EvalIdle ==
    /\ epc = "not_called"
    /\ model_mode = "train"
    /\ data_loader = NoLoader
    /\ use_squad_v2 = FALSE
    /\ batch_no = 0
    /\ pred_dict = << >>
    /\ nll_count = 0
    /\ results = << >>
    /\ eerror = "none"

Init ==
    /\ args \in ArgsSet
    /\ gpus \in 0..MaxGpus
    /\ train_n \in 0..MaxTrain
    /\ dev_n \in 0..MaxDev
    /\ pc = "start"
    /\ log = << >>
    /\ bidaf_model = NoModel
    /\ paraphaser_model = NoModel
    /\ train_loader = NoLoader
    /\ dev_loader = NoLoader
    /\ epoch = 0
    /\ step = 0
    /\ steps_till_eval = 0
    /\ pass_pos = 0
    /\ yielded = 0
    /\ batches = 0
    /\ trace = << >>
    /\ error = "none"
    /\ exit_status = "running"
    /\ EvalIdle

\* logging, devices, seed, embeddings, BiDAF construction
Setup ==
    /\ pc = "start"
    /\ args' = [args EXCEPT !.batch_size = args.batch_size * Max(1, gpus)]
    /\ bidaf_model' = BuiltBidaf(args.hidden_size)
    /\ log' = log \o <<"Building BiDAF model">>
    /\ pc' = "branch"
    /\ UNCHANGED <<gpus, train_n, dev_n, paraphaser_model, train_loader,
                   dev_loader, epoch, step, steps_till_eval, pass_pos,
                   yielded, batches, trace, error, exit_status>>
    /\ UNCHANGED evalVars

ShortTestBranch ==
    /\ pc = "branch"
    /\ Branch(args) = "short"
    /\ args' = [args EXCEPT !.hidden_size = ShortTestHidden]
    /\ pc' = "build"
    /\ UNCHANGED <<gpus, train_n, dev_n, log, bidaf_model,
                   paraphaser_model, train_loader, dev_loader, epoch, step,
                   steps_till_eval, pass_pos, yielded, batches, trace,
                   error, exit_status>>
    /\ UNCHANGED evalVars

FatalExit ==
    /\ pc = "branch"
    /\ Branch(args) = "exit"
    /\ log' = log \o <<ExitMessage>>
    /\ exit_status' = 1
    /\ pc' = "exited"
    /\ UNCHANGED <<args, gpus, train_n, dev_n, bidaf_model,
                   paraphaser_model, train_loader, dev_loader, epoch, step,
                   steps_till_eval, pass_pos, yielded, batches, trace,
                   error>>
    /\ UNCHANGED evalVars

LoadCheckpoint ==
    /\ pc = "branch"
    /\ Branch(args) = "load"
    /\ log' = log \o <<"Loading checkpoint">>
    /\ bidaf_model' = LoadedBidaf(bidaf_model, args.load_path)
    /\ pc' = "build"
    /\ UNCHANGED <<args, gpus, train_n, dev_n, paraphaser_model,
                   train_loader, dev_loader, epoch, step, steps_till_eval,
                   pass_pos, yielded, batches, trace, error, exit_status>>
    /\ UNCHANGED evalVars

BuildParaphraser ==
    /\ pc = "build"
    /\ paraphaser_model' = BuiltParaphraser(args.hidden_size)
    /\ pc' = "data"
    /\ UNCHANGED <<args, gpus, train_n, dev_n, log, bidaf_model,
                   train_loader, dev_loader, epoch, step, steps_till_eval,
                   pass_pos, yielded, batches, trace, error, exit_status>>
    /\ UNCHANGED evalVars

BuildLoaders ==
    /\ pc = "data"
    /\ log' = log \o <<"Building dataset">>
    /\ train_loader' = TrainLoader(args, train_n)
    /\ dev_loader' = DevLoader(args, dev_n)
    /\ pc' = "train_init"
    /\ UNCHANGED <<args, gpus, train_n, dev_n, bidaf_model,
                   paraphaser_model, epoch, step, steps_till_eval,
                   pass_pos, yielded, batches, trace, error, exit_status>>
    /\ UNCHANGED evalVars

\* step = 0; steps_till_eval = args.eval_steps; epoch = step // len(train_dataset)
InitTraining ==
    /\ pc = "train_init"
    /\ train_loader.n # 0
    /\ step' = 0
    /\ log' = log \o <<"Training">>
    /\ steps_till_eval' = args.eval_steps
    /\ epoch' = step' \div train_loader.n
    /\ pc' = "epoch_test"
    /\ UNCHANGED <<args, gpus, train_n, dev_n, bidaf_model,
                   paraphaser_model, train_loader, dev_loader, pass_pos,
                   yielded, batches, trace, error, exit_status>>
    /\ UNCHANGED evalVars

\* the same lines over an empty training set: step // 0
InitTrainingZeroDivision ==
    /\ pc = "train_init"
    /\ train_loader.n = 0
    /\ step' = 0
    /\ log' = log \o <<"Training">>
    /\ steps_till_eval' = args.eval_steps
    /\ error' = "ZeroDivisionError"
    /\ exit_status' = 1
    /\ pc' = "raised"
    /\ UNCHANGED <<args, gpus, train_n, dev_n, bidaf_model,
                   paraphaser_model, train_loader, dev_loader, epoch,
                   pass_pos, yielded, batches, trace>>
    /\ UNCHANGED evalVars

\* while epoch != args.num_epochs: false, main falls off its end
EpochLoopExit ==
    /\ pc = "epoch_test"
    /\ epoch = args.num_epochs
    /\ exit_status' = 0
    /\ pc' = "returned"
    /\ UNCHANGED <<args, gpus, train_n, dev_n, log, bidaf_model,
                   paraphaser_model, train_loader, dev_loader, epoch, step,
                   steps_till_eval, pass_pos, yielded, batches, trace,
                   error>>
    /\ UNCHANGED evalVars

StartEpoch ==
    /\ pc = "epoch_test"
    /\ epoch # args.num_epochs
    /\ epoch' = epoch + 1
    /\ log' = log \o <<"Starting epoch">>
    /\ pass_pos' = 0
    /\ pc' = "iter"
    /\ UNCHANGED <<args, gpus, train_n, dev_n, bidaf_model,
                   paraphaser_model, train_loader, dev_loader, step,
                   steps_till_eval, yielded, batches, trace, error,
                   exit_status>>
    /\ UNCHANGED evalVars

\* The loader yields a batch; index tensors go to the device, the
\* Paraphraser runs and its output is printed.  (The loader is never found
\* exhausted here: the training set is non-empty once InitTraining has
\* passed, and no batch in hand leads back to the loader, see below.)
NextBatch ==
    /\ pc = "iter"
    /\ pass_pos < train_loader.n
    /\ LET size == NextBatchSize(train_loader.n, train_loader.batch_size,
                                 pass_pos)
       IN /\ pass_pos' = pass_pos + size
          /\ yielded' = yielded + size
    /\ batches' = batches + 1
    /\ trace' = trace \o <<"to_device", "paraphraser", "print">>
    /\ pc' = "batch"
    /\ UNCHANGED <<args, gpus, train_n, dev_n, log, bidaf_model,
                   paraphaser_model, train_loader, dev_loader, epoch, step,
                   steps_till_eval, error, exit_status>>
    /\ UNCHANGED evalVars

ShortTestReturn ==
    /\ pc = "batch"
    /\ ShortTestReturns(args)
    /\ exit_status' = 0
    /\ pc' = "returned"
    /\ UNCHANGED <<args, gpus, train_n, dev_n, log, bidaf_model,
                   paraphaser_model, train_loader, dev_loader, epoch, step,
                   steps_till_eval, pass_pos, yielded, batches, trace,
                   error>>
    /\ UNCHANGED evalVars

\* optimizer.zero_grad(): the name optimizer is bound nowhere (its
\* assignment, like those of ema, scheduler and saver, is commented out,
\* and no name model exists in main), so evaluating it raises NameError
\* and the rest of the loop body is never executed.
ZeroGradNameError ==
    /\ pc = "batch"
    /\ ~ShortTestReturns(args)
    /\ error' = "NameError"
    /\ exit_status' = 1
    /\ pc' = "raised"
    /\ UNCHANGED <<args, gpus, train_n, dev_n, log, bidaf_model,
                   paraphaser_model, train_loader, dev_loader, epoch, step,
                   steps_till_eval, pass_pos, yielded, batches, trace>>
    /\ UNCHANGED evalVars

Next ==
    \/ Setup
    \/ ShortTestBranch
    \/ FatalExit
    \/ LoadCheckpoint
    \/ BuildParaphraser
    \/ BuildLoaders
    \/ InitTraining
    \/ InitTrainingZeroDivision
    \/ EpochLoopExit
    \/ StartEpoch
    \/ NextBatch
    \/ ShortTestReturn
    \/ ZeroGradNameError

Spec == Init /\ [][Next]_vars

\* ---------------------------------------------------------- evaluate
\* mutant: AvNA is appended whatever use_squad_v2 is
ResultKeys_AlwaysAvNA(v2) == <<"NLL", "F1", "EM", "AvNA">>

\* results_list, by key: NLL, F1, EM, and AvNA appended if use_squad_v2
ResultKeys(v2) ==
    IF v2 THEN <<"NLL", "F1", "EM", "AvNA">> ELSE <<"NLL", "F1", "EM">>

\* util.convert_tokens: one prediction per id of the batch
ConvertTokens(ids) == [i \in ids |-> "answer"]

\* pred_dict.update(preds)
Update(d, preds) == preds @@ d

\* the loaders evaluate is called with: the dev loader as main builds it,
\* and a loader whose batches carry the seven fields evaluate unpacks
MainDevLoaders ==
    { DevLoader([batch_size |-> bs], n) : n \in 0..MaxDev, bs \in 1..MaxBatch }

SevenFieldLoaders ==
    { Loader("seven_fields", EvaluateUnpackFields, n, bs, FALSE) :
        n \in 0..MaxDev, bs \in 1..MaxBatch }

EvalLoaders == MainDevLoaders \cup SevenFieldLoaders

MainNotRun ==
    /\ args = [short_test |-> FALSE, load_path |-> "", num_epochs |-> 0,
               eval_steps |-> 1, batch_size |-> 1, hidden_size |-> 1,
               use_squad_v2 |-> FALSE]
    /\ gpus = 0
    /\ train_n = 0
    /\ dev_n = 0
    /\ pc = "not_run"
    /\ log = << >>
    /\ bidaf_model = NoModel
    /\ paraphaser_model = NoModel
    /\ train_loader = NoLoader
    /\ dev_loader = NoLoader
    /\ epoch = 0
    /\ step = 0
    /\ steps_till_eval = 0
    /\ pass_pos = 0
    /\ yielded = 0
    /\ batches = 0
    /\ trace = << >>
    /\ error = "none"
    /\ exit_status = "running"

InitEvaluate ==
    /\ MainNotRun
    /\ epc = "call"
    /\ model_mode \in {"train", "eval"}
    /\ data_loader \in EvalLoaders
    /\ use_squad_v2 \in BOOLEAN
    /\ batch_no = 0
    /\ pred_dict = << >>
    /\ nll_count = 0
    /\ results = << >>
    /\ eerror = "none"

\* nll_meter = AverageMeter(); model.eval(); pred_dict = {}
EvalEnter ==
    /\ epc = "call"
    /\ nll_count' = 0
    /\ model_mode' = "eval"
    /\ pred_dict' = << >>
    /\ epc' = "open"
    /\ UNCHANGED <<data_loader, use_squad_v2, batch_no, results, eerror>>
    /\ UNCHANGED mainVars

\* with open(eval_file) as fh: gold_dict = json_load(fh)
ReadGold ==
    /\ epc = "open"
    /\ epc' = "loop"
    /\ UNCHANGED <<model_mode, data_loader, use_squad_v2, batch_no,
                   pred_dict, nll_count, results, eerror>>
    /\ UNCHANGED mainVars

\* the file is missing or is not JSON
ReadGoldError ==
    /\ epc = "open"
    /\ eerror' = "gold_file"
    /\ epc' = "raised"
    /\ UNCHANGED <<model_mode, data_loader, use_squad_v2, batch_no,
                   pred_dict, nll_count, results>>
    /\ UNCHANGED mainVars

\* one pass of the batch loop: forward, loss, discretize, convert_tokens
EvalBatch ==
    /\ epc = "loop"
    /\ batch_no < NumBatches(data_loader.n, data_loader.batch_size)
    /\ data_loader.fields = EvaluateUnpackFields
    /\ LET ids == BatchIds(data_loader.n, data_loader.batch_size,
                           batch_no + 1)
       IN /\ nll_count' = nll_count + Cardinality(ids)
          /\ pred_dict' = Update(pred_dict, ConvertTokens(ids))
    /\ batch_no' = batch_no + 1
    /\ UNCHANGED <<epc, model_mode, data_loader, use_squad_v2, results,
                   eerror>>
    /\ UNCHANGED mainVars

\* the for statement unpacks a batch of another length: ValueError
EvalBatchUnpackError ==
    /\ epc = "loop"
    /\ batch_no < NumBatches(data_loader.n, data_loader.batch_size)
    /\ data_loader.fields # EvaluateUnpackFields
    /\ eerror' = "unpack"
    /\ epc' = "raised"
    /\ UNCHANGED <<model_mode, data_loader, use_squad_v2, batch_no,
                   pred_dict, nll_count, results>>
    /\ UNCHANGED mainVars

\* the forward pass, loss, discretize or convert_tokens raises
EvalBatchError ==
    /\ epc = "loop"
    /\ batch_no < NumBatches(data_loader.n, data_loader.batch_size)
    /\ data_loader.fields = EvaluateUnpackFields
    /\ eerror' = "batch"
    /\ epc' = "raised"
    /\ UNCHANGED <<model_mode, data_loader, use_squad_v2, batch_no,
                   pred_dict, nll_count, results>>
    /\ UNCHANGED mainVars

\* mutant: model.train() is missing
EvalLoopEnd_NoTrain ==
    /\ epc = "loop"
    /\ batch_no = NumBatches(data_loader.n, data_loader.batch_size)
    /\ epc' = "metrics"
    /\ UNCHANGED <<model_mode, data_loader, use_squad_v2, batch_no,
                   pred_dict, nll_count, results, eerror>>
    /\ UNCHANGED mainVars

\* the loader is exhausted; model.train()
EvalLoopEnd ==
    /\ epc = "loop"
    /\ batch_no = NumBatches(data_loader.n, data_loader.batch_size)
    /\ model_mode' = "train"
    /\ epc' = "metrics"
    /\ UNCHANGED <<data_loader, use_squad_v2, batch_no, pred_dict,
                   nll_count, results, eerror>>
    /\ UNCHANGED mainVars

\* util.eval_dicts, results_list, OrderedDict, return
EvalReturn ==
    /\ epc = "metrics"
    /\ results' = ResultKeys(use_squad_v2)
    /\ epc' = "returned"
    /\ UNCHANGED <<model_mode, data_loader, use_squad_v2, batch_no,
                   pred_dict, nll_count, eerror>>
    /\ UNCHANGED mainVars

\* util.eval_dicts raises
EvalMetricsError ==
    /\ epc = "metrics"
    /\ eerror' = "metrics"
    /\ epc' = "raised"
    /\ UNCHANGED <<model_mode, data_loader, use_squad_v2, batch_no,
                   pred_dict, nll_count, results>>
    /\ UNCHANGED mainVars

NextEvaluate ==
    \/ EvalEnter
    \/ ReadGold
    \/ ReadGoldError
    \/ EvalBatch
    \/ EvalBatchUnpackError
    \/ EvalBatchError
    \/ EvalLoopEnd
    \/ EvalReturn
    \/ EvalMetricsError

SpecEvaluate == InitEvaluate /\ [][NextEvaluate]_vars

\* ================================================================
\* Properties
\* ================================================================
Ended == pc \in {"exited", "returned", "raised"}
PastBranch == pc \notin {"not_run", "start", "branch"}
InTrainingLoop == pc \in {"epoch_test", "iter", "batch"}
Members(seq) == { seq[i] : i \in DOMAIN seq }

\* the operations the training loop performs other than printing
TrainOps ==
    {"to_device", "paraphraser", "zero_grad", "forward", "loss", "backward",
     "clip_grad", "optimizer.step", "scheduler.step", "ema.update",
     "step_advance"}
EvalOps == {"ema.assign", "evaluate", "saver.save", "ema.resume"}
IsTrainOp(op) == op \in TrainOps
IsEvalOp(op) == op \in EvalOps
ClaimedBatchOrder ==
    <<"to_device", "paraphraser", "zero_grad", "forward", "loss", "backward",
      "clip_grad", "optimizer.step", "scheduler.step", "ema.update",
      "step_advance">>
ClaimedEvalOrder == <<"ema.assign", "evaluate", "saver.save", "ema.resume">>
Prefix(seq, n) == SubSeq(seq, 1, Min(n, Len(seq)))

\* C1: main takes the fatal exit exactly when load_path is empty and
\* short-test mode is off; it then has logged the error message last and
\* ended with a non-zero status, with no Paraphraser, no loader and no
\* training step; in every other configuration main passes the branch
\* without exiting.
C1_FatalExitIff ==
    /\ PastBranch =>
         (pc = "exited" <=> (~args.short_test /\ args.load_path = ""))
    /\ pc = "exited" =>
         /\ exit_status \in Int /\ exit_status # 0
         /\ log # << >> /\ log[Len(log)] = ExitMessage
         /\ paraphaser_model = NoModel
         /\ train_loader = NoLoader /\ dev_loader = NoLoader
         /\ batches = 0 /\ step = 0 /\ trace = << >>
    /\ ExitMessage \in Members(log) => pc = "exited"

C1_Witness == pc = "exited" /\ bidaf_model.built

\* C2 (as claimed): with short-test off, a checkpoint supplied and a
\* non-empty training set, a run of main that has ended has returned
\* normally after exactly num_epochs epochs, each having consumed every
\* batch of the training loader.
C2_Claim ==
    (Ended /\ ~args.short_test /\ args.load_path # "" /\ train_n > 0) =>
        /\ pc = "returned" /\ exit_status = 0
        /\ epoch = args.num_epochs
        /\ yielded = args.num_epochs * train_n
        /\ batches = args.num_epochs
                       * NumBatches(train_n, train_loader.batch_size)

\* C3 (as claimed): at every batch boundary of a run with short-test off
\* step counts the examples consumed, and for every i >= 1 at least i
\* evaluations have been invoked once step has reached i * eval_steps.
C3_Claim ==
    (~args.short_test /\ batches > 0 /\ pc # "batch") =>
        /\ step = yielded
        /\ \A i \in 1..MaxTrain :
             step >= i * args.eval_steps =>
                Len(SelectSeq(trace, LAMBDA op : op = "evaluate")) >= i

\* C5 (as claimed): every training batch processed with short-test off
\* has gone through the eleven operations, in the order listed, once each.
C5_Claim ==
    (~args.short_test /\ batches = 1 /\ pc # "batch") =>
        Prefix(SelectSeq(trace, IsTrainOp), Len(ClaimedBatchOrder))
            = ClaimedBatchOrder

\* C6 (as claimed): whenever main is in the training loop the BiDAF model
\* has been loaded from load_path, moved to the device and put in
\* inference mode.
C6_Claim ==
    InTrainingLoop =>
        /\ bidaf_model.built
        /\ bidaf_model.loaded_from = args.load_path
        /\ bidaf_model.loaded_from # ""
        /\ bidaf_model.on_device
        /\ bidaf_model.mode = "eval"

\* C6 (amended): with short-test off, whenever main is in the training
\* loop the BiDAF model has been loaded from load_path, moved to the device
\* and put in inference mode; with short-test on it is built but never
\* loaded; and in either mode no step taken from inside the training loop
\* changes the BiDAF model (parameters or mode).
C6_Amended ==
    /\ [](InTrainingLoop =>
            /\ bidaf_model.built
            /\ bidaf_model.updates = 0
            /\ ~args.short_test =>
                 /\ bidaf_model.loaded_from = args.load_path
                 /\ bidaf_model.loaded_from # ""
                 /\ bidaf_model.on_device
                 /\ bidaf_model.mode = "eval"
            /\ args.short_test => bidaf_model.loaded_from = "")
    /\ [][InTrainingLoop => bidaf_model' = bidaf_model]_vars

C6_Witness ==
    /\ pc = "batch" /\ ~args.short_test /\ batches = 1
    /\ bidaf_model.mode = "eval" /\ bidaf_model.loaded_from = "ckpt"

\* C8 (as claimed): once a run with short-test off has consumed eval_steps
\* examples and ended, the periodic evaluation has taken place, as
\* ema.assign, evaluate, saver.save, ema.resume in this order.
C8_Claim ==
    (Ended /\ ~args.short_test /\ yielded >= args.eval_steps) =>
        Prefix(SelectSeq(trace, IsEvalOp), Len(ClaimedEvalOrder))
            = ClaimedEvalOrder

\* C10: with short-test on, main never takes the fatal exit and never
\* loads a checkpoint, draws at most one training batch, returns right
\* after the Paraphraser forward pass and the printing of that batch, and
\* never advances step nor performs any other training or evaluation
\* operation.
C10_ShortTest ==
    (args.short_test /\ pc # "not_run") =>
        /\ pc # "exited"
        /\ ExitMessage \notin Members(log)
        /\ bidaf_model.built => bidaf_model.loaded_from = ""
        /\ batches <= 1
        /\ step = 0
        /\ epc = "not_called"
        /\ Members(trace) \subseteq {"to_device", "paraphraser", "print"}
        /\ batches = 1 =>
             /\ trace = <<"to_device", "paraphraser", "print">>
             /\ pc \in {"batch", "returned"}
        /\ pc = "raised" => error = "ZeroDivisionError" /\ batches = 0

C10_Witness ==
    /\ args.short_test /\ args.load_path = ""
    /\ pc = "returned" /\ batches = 1
    /\ trace = <<"to_device", "paraphraser", "print">>

\* ---------------------------------------------------------------- evaluate
EvalEnded == epc \in {"returned", "raised"}
AllIds == 1..data_loader.n

\* C4 (as claimed): however a call of evaluate ends, the model is in
\* training mode.
C4_Claim == EvalEnded => model_mode = "train"

\* C4 (amended): evaluate puts the model in inference mode on entry and
\* keeps it there through the batch loop; the model is back in training
\* mode whenever evaluate returns normally or raises from the final metric
\* computation (util.eval_dicts), and it is left in inference mode when
\* evaluate raises while reading the gold file or inside the batch loop.
C4_Amended ==
    /\ epc \in {"open", "loop"} => model_mode = "eval"
    /\ epc \in {"metrics", "returned"} => model_mode = "train"
    /\ epc = "raised" => (model_mode = "train" <=> eerror = "metrics")

C4_Witness == epc = "returned" /\ batch_no > 0 /\ model_mode = "train"

\* C7: every normal return of evaluate yields the keys NLL, F1, EM in this
\* order, followed by AvNA exactly when use_squad_v2 is true, and a
\* prediction dictionary holding one entry per example of every batch of
\* the data loader.
C7_Results ==
    epc = "returned" =>
        /\ Len(results) = (IF use_squad_v2 THEN 4 ELSE 3)
        /\ Prefix(results, 3) = <<"NLL", "F1", "EM">>
        /\ ("AvNA" \in Members(results)) <=> use_squad_v2
        /\ use_squad_v2 => results[4] = "AvNA"
        /\ batch_no = NumBatches(data_loader.n, data_loader.batch_size)
        /\ DOMAIN pred_dict = AllIds
        /\ nll_count = data_loader.n

C7_Witness ==
    /\ epc = "returned" /\ use_squad_v2 /\ batch_no >= 2
    /\ data_loader.n = 3 /\ DOMAIN pred_dict = {1, 2, 3}

\* C9 (as claimed): evaluate, given the dev loader as main builds it,
\* never raises for a batch it cannot unpack.
C9_Claim == data_loader \in MainDevLoaders => eerror # "unpack"

====
